---- MODULE Spec2Model ----
(***************************************************************************)
(* Model of einsteinpy.symbolic.ricci (RicciTensor, RicciScalar) and       *)
(* einsteinpy.symbolic.weyl (WeylTensor).                                  *)
(*                                                                         *)
(* Objects live in a heap (a sequence, object id = position, 0 = None).    *)
(* Array entries are exact rationals <<p, q>> in lowest terms, which is    *)
(* the canonical form sympy gives a Rational; simplify leaves it alone.    *)
(* The tensor engine (Tensor, _change_config, MetricTensor, Christoffel    *)
(* symbols, Riemann tensor, sympy contraction) is outside the two source   *)
(* files and is modelled from its contract.                                *)
(***************************************************************************)
EXTENDS Integers, Sequences, FiniteSets, TLC

\* ---------------------------------------------------------------- bounds
\* dimension of the metrics in the session specification
SmallDim == 2
\* largest metric dimension in the Weyl specification
MaxDim == 4
\* objects a session may create on top of its inputs
MaxNew == 2

\* ------------------------------------------------------- program constants
RicciOrder == 2
ScalarOrder == 0
WeylOrder == 4
\* dimension at which from_metric returns the zero tensor
WeylZeroDim == 3

\* ------------------------------------------------------------- rationals
Abs(x) == IF x < 0 THEN -x ELSE x

RECURSIVE GCD(_, _)
GCD(a, b) == IF b = 0 THEN a ELSE GCD(b, a % b)

\* p/q in lowest terms with a positive denominator (q # 0)
Rat(p, q) ==
    LET sgnq == IF q < 0 THEN -1 ELSE 1
        gcdpq == GCD(Abs(p), Abs(q))
    IN  <<(sgnq * p) \div gcdpq, Abs(q) \div gcdpq>>

RInt(k) == <<k, 1>>
RZero == <<0, 1>>
RAdd(a, b) == Rat(a[1] * b[2] + b[1] * a[2], a[2] * b[2])
RSub(a, b) == Rat(a[1] * b[2] - b[1] * a[2], a[2] * b[2])
RMul(a, b) == Rat(a[1] * b[1], a[2] * b[2])
RDiv(a, b) == Rat(a[1] * b[2], a[2] * b[1])

\* sum of the first n terms of a sequence of rationals
RECURSIVE RSumTo(_, _)
RSumTo(terms, n) == IF n = 0 THEN RZero ELSE RAdd(RSumTo(terms, n - 1), terms[n])

\* the function fn itself, held entry by entry (TLC then computes each entry
\* once instead of at every use)
Stored(fn) == fn @@ <<>>

\* sum of a sequence of rationals
RSum(terms) == LET held == Stored(terms) IN RSumTo(held, Len(held))

\* ---------------------------------------------------------------- arrays
\* index tuples of a rank-r array with n entries per axis (0-based entries)
Idx(r, n) == [1..r -> 0..(n - 1)]

\* an array: its shape and its entries
MkArr(r, n, f(_)) ==
    [shape |-> [k \in 1..r |-> n], data |-> Stored([ix \in Idx(r, n) |-> f(ix)])]

Rank(arr) == Len(arr.shape)
Side(arr) == IF Rank(arr) = 0 THEN 0 ELSE arr.shape[1]

\* arr[i, j, ...]
At(arr, ix) == arr.data[ix]

\* np.zeros(shape, dtype=int) as a sympy Array
Zeros(r, n) == MkArr(r, n, LAMBDA ix : RZero)

\* sympy.tensorcontraction(arr, (a, b)) for axes a < b (0-based)
TensorContraction(arr, a, b) ==
    LET r == Rank(arr)
        n == Side(arr)
        Full(jx, s) ==
            [p \in 1..r |->
                IF p = a + 1 \/ p = b + 1 THEN s
                ELSE IF p < a + 1 THEN jx[p]
                ELSE IF p < b + 1 THEN jx[p - 1]
                ELSE jx[p - 2]]
    IN  MkArr(r - 2, n,
              LAMBDA jx : RSum([s \in 1..n |-> At(arr, Full(jx, s - 1))]))

\* the single expression of a rank-0 array
ScalarOf(rank0) == rank0.data[<<>>]

\* ------------------------------------------------------- configurations
\* an index configuration is a sequence of "u" / "l", one per axis
LL == <<"l", "l">>
UL == <<"u", "l">>
LU == <<"l", "u">>
UU == <<"u", "u">>
ULL == <<"u", "l", "l">>
ULLL == <<"u", "l", "l", "l">>
LLLL == <<"l", "l", "l", "l">>
UULL == <<"u", "u", "l", "l">>

\* ---------------------------------------------------------------- objects
None == 0

\* the call that produced an object (a history field) or that ran last
Call(op, recv, metric, config, syms) ==
    [op |-> op, recv |-> recv, metric |-> metric, config |-> config, syms |-> syms]

TupleSyms(n) == [kind |-> "tuple", len |-> n]
ListSyms(n) == [kind |-> "list", len |-> n]
StrSyms(n) == [kind |-> "str", len |-> n]

NoCall == Call("none", None, None, <<>>, TupleSyms(0))

Obj(kind, arr, config, syms, pm) ==
    [kind |-> kind, arr |-> arr, config |-> config, syms |-> syms,
     dims |-> syms.len, pm |-> pm, origin |-> NoCall]

NoObj == Obj("None", Zeros(0, 0), <<>>, TupleSyms(0), None)

\* the outcome of a call: a returned object or a raised exception
Ok(obj) == [out |-> "ok", obj |-> obj]
Raise(exc) == [out |-> exc, obj |-> NoObj]

\* ------------------------------------------------- engine: metric tensor
RemoveAt(seq, j) == [k \in 1..(Len(seq) - 1) |-> IF k < j THEN seq[k] ELSE seq[k + 1]]

\* determinant of the minor of arr on the given rows and columns
RECURSIVE Det(_, _, _)
Det(arr, rows, cols) ==
    IF Len(rows) = 0 THEN RInt(1)
    ELSE RSum([s \in 1..Len(cols) |->
                  RMul(RMul(RInt(IF s % 2 = 1 THEN 1 ELSE -1),
                            At(arr, <<rows[1], cols[s]>>)),
                       Det(arr, Tail(rows), RemoveAt(cols, s)))])

\* the matrix inverse of a rank-2 array (adjugate over determinant); a
\* singular array has none and is left as it is
MatInv(arr) ==
    LET n == Side(arr)
        all == [k \in 1..n |-> k - 1]
        d == Det(arr, all, all)
    IN  IF d = RZero THEN arr
        ELSE MkArr(2, n,
                   LAMBDA ix :
                       RDiv(RMul(RInt(IF (ix[1] + ix[2]) % 2 = 0 THEN 1 ELSE -1),
                                 Det(arr, RemoveAt(all, ix[2] + 1),
                                     RemoveAt(all, ix[1] + 1))),
                            d))

\* MetricTensor.inv(): the inverse metric, with the opposite configuration
MetricInv(m) ==
    [m EXCEPT !.arr = MatInv(m.arr), !.config = IF m.config = LL THEN UU ELSE LL]

\* MetricTensor.lower_config(): the covariant form of the metric
MetricLowerConfig(m) == IF m.config = LL THEN m ELSE MetricInv(m)

\* -------------------------------------- engine: raising / lowering indices
\* contract axis i (1-based) of arr with the second axis of met
MoveIndex(arr, i, met) ==
    MkArr(Rank(arr), Side(arr),
          LAMBDA ix :
              RSum([s \in 1..Side(arr) |->
                       RMul(At(met, <<ix[i], s - 1>>),
                            At(arr, [ix EXCEPT ![i] = s - 1]))]))

Min(a, b) == IF a < b THEN a ELSE b

\* the axes whose configuration changes
ChangedAxes(config, newconfig) ==
    {i \in 1..Min(Len(config), Len(newconfig)) : config[i] # newconfig[i]}

\* axes i .. Len(config) moved in order; met_dict holds the covariant metric
\* (to lower an index) and its inverse (to raise one)
RECURSIVE ChangeFrom(_, _, _, _, _)
ChangeFrom(arr, config, newconfig, i, met_dict) ==
    IF i > Min(Len(config), Len(newconfig)) THEN arr
    ELSE IF config[i] = newconfig[i]
         THEN ChangeFrom(arr, config, newconfig, i + 1, met_dict)
         ELSE ChangeFrom(MoveIndex(arr, i, met_dict[newconfig[i]]),
                         config, newconfig, i + 1, met_dict)

\* _change_config can move an axis only if the array has it and the metric fits
ChangeConfigDefined(tensor, metric, newconfig) ==
    \A i \in ChangedAxes(tensor.config, newconfig) :
        i <= Rank(tensor.arr) /\ Side(tensor.arr) = Side(metric.arr)

\* _change_config(tensor, metric, newconfig): the array in the new configuration
ChangeConfigArr(tensor, metric, newconfig) ==
    LET cov == MetricLowerConfig(metric)
    IN  ChangeFrom(tensor.arr, tensor.config, newconfig, 1,
                   [l |-> cov.arr, u |-> MetricInv(cov).arr])

\* --------------------------------------------- engine: curvature objects
\* RiemannCurvatureTensor.change_config(newconfig, metric)
RiemannChangeConfig(h, self, newconfig, metric) ==
    LET m == IF metric = None THEN self.pm ELSE metric
    IN  IF m = None THEN Raise("Exception")
        ELSE IF ~ChangeConfigDefined(self, h[m], newconfig) THEN Raise("Error")
        ELSE Ok(Obj("Riemann", ChangeConfigArr(self, h[m], newconfig),
                    newconfig, self.syms, m))

\* ChristoffelSymbols.from_metric(metric). A Christoffel object is
\* represented by the "ulll" Riemann array the engine derives from it;
\* eng[mid] is that array for the metric with id mid.
ChristoffelFromMetric(h, eng, mid) ==
    Ok(Obj("Christoffel", eng[mid], ULL, h[mid].syms, mid))

\* RiemannCurvatureTensor.from_christoffels(chris, parent_metric)
RiemannFromChristoffels(h, chris, parent_metric) ==
    Ok(Obj("Riemann", chris.arr, ULLL, chris.syms,
           IF parent_metric = None THEN chris.pm ELSE parent_metric))

\* RiemannCurvatureTensor.from_metric(metric)
RiemannFromMetric(h, eng, mid) ==
    RiemannFromChristoffels(h, ChristoffelFromMetric(h, eng, mid).obj, None)

\* ------------------------------------------------------------ ricci.py
\* isinstance(syms, (list, tuple))
IsListOrTuple(syms) == syms.kind \in {"list", "tuple"}

\* a constructor that does not compare the configuration with the order
RicciTensorInitNoLength(arr, syms, config, parent_metric) ==
    IF ~IsListOrTuple(syms) THEN Raise("TypeError")
    ELSE Ok(Obj("RicciTensor", arr, config, syms, parent_metric))

\* RicciTensor.__init__(arr, syms, config, parent_metric)
RicciTensorInit(arr, syms, config, parent_metric) ==
    IF ~IsListOrTuple(syms) THEN Raise("TypeError")
    ELSE IF ~(Len(config) = RicciOrder) THEN Raise("ValueError")
    ELSE Ok(Obj("RicciTensor", arr, config, syms, parent_metric))

\* a from_riemann that converts the Riemann tensor whatever its configuration
RicciFromRiemannAlwaysConverts(h, riemann, parent_metric) ==
    LET conv == RiemannChangeConfig(h, riemann, ULLL, parent_metric)
    IN  IF conv.out # "ok" THEN Raise(conv.out)
        ELSE LET pm == IF parent_metric = None THEN conv.obj.pm ELSE parent_metric
             IN  RicciTensorInit(TensorContraction(conv.obj.arr, 0, 2),
                                 conv.obj.syms, LL, pm)

\* RicciTensor.from_riemann(riemann, parent_metric)
RicciFromRiemann(h, riemann, parent_metric) ==
    LET conv == IF ~(riemann.config = ULLL)
                THEN RiemannChangeConfig(h, riemann, ULLL, parent_metric)
                ELSE Ok(riemann)
    IN  IF conv.out # "ok" THEN Raise(conv.out)
        ELSE LET pm == IF parent_metric = None THEN conv.obj.pm ELSE parent_metric
             IN  RicciTensorInit(TensorContraction(conv.obj.arr, 0, 2),
                                 conv.obj.syms, LL, pm)

\* RicciTensor.from_christoffels(chris, parent_metric)
RicciFromChristoffels(h, chris, parent_metric) ==
    LET rt == RiemannFromChristoffels(h, chris, parent_metric)
    IN  RicciFromRiemann(h, rt.obj, None)

\* RicciTensor.from_metric(metric)
RicciFromMetric(h, eng, mid) ==
    LET ch == ChristoffelFromMetric(h, eng, mid)
    IN  RicciFromChristoffels(h, ch.obj, None)

\* a change_config that returns the tensor as it is when it finds no metric
RicciChangeConfigSilent(h, self, newconfig, metric) ==
    LET m == IF metric = None THEN self.pm ELSE metric
    IN  IF m = None THEN Ok(self)
        ELSE IF ~ChangeConfigDefined(self, h[m], newconfig) THEN Raise("Error")
        ELSE RicciTensorInit(ChangeConfigArr(self, h[m], newconfig),
                             self.syms, newconfig, m)

\* a change_config that prefers the stored parent metric to its argument
RicciChangeConfigStoredFirst(h, self, newconfig, metric) ==
    LET m == IF self.pm = None THEN metric ELSE self.pm
    IN  IF m = None THEN Raise("Exception")
        ELSE IF ~ChangeConfigDefined(self, h[m], newconfig) THEN Raise("Error")
        ELSE RicciTensorInit(ChangeConfigArr(self, h[m], newconfig),
                             self.syms, newconfig, m)

\* a change_config that hands the constructor the old configuration
RicciChangeConfigKeepsConfig(h, self, newconfig, metric) ==
    LET m == IF metric = None THEN self.pm ELSE metric
    IN  IF m = None THEN Raise("Exception")
        ELSE IF ~ChangeConfigDefined(self, h[m], newconfig) THEN Raise("Error")
        ELSE RicciTensorInit(ChangeConfigArr(self, h[m], newconfig),
                             self.syms, self.config, m)

\* RicciTensor.change_config(newconfig, metric)
RicciChangeConfig(h, self, newconfig, metric) ==
    LET m == IF metric = None THEN self.pm ELSE metric
    IN  IF m = None THEN Raise("Exception")
        ELSE IF ~ChangeConfigDefined(self, h[m], newconfig) THEN Raise("Error")
        ELSE RicciTensorInit(ChangeConfigArr(self, h[m], newconfig),
                             self.syms, newconfig, m)

\* RicciScalar.__init__(expression, syms, parent_metric)
RicciScalarInit(expression, syms, parent_metric) ==
    IF ~IsListOrTuple(syms) THEN Raise("TypeError")
    ELSE Ok(Obj("RicciScalar", expression, <<>>, syms, parent_metric))

\* a from_riccitensor that contracts the tensor in whatever configuration
ScalarFromRicciTensorNoConvert(h, riccitensor, parent_metric) ==
    LET pm == IF parent_metric = None THEN riccitensor.pm ELSE parent_metric
    IN  RicciScalarInit(TensorContraction(riccitensor.arr, 0, 1), riccitensor.syms, pm)

\* RicciScalar.from_riccitensor(riccitensor, parent_metric)
ScalarFromRicciTensor(h, riccitensor, parent_metric) ==
    LET conv == IF ~(riccitensor.config = UL)
                THEN RicciChangeConfig(h, riccitensor, UL, parent_metric)
                ELSE Ok(riccitensor)
    IN  IF conv.out # "ok" THEN Raise(conv.out)
        ELSE LET pm == IF parent_metric = None THEN conv.obj.pm ELSE parent_metric
             IN  RicciScalarInit(TensorContraction(conv.obj.arr, 0, 1),
                                 conv.obj.syms, pm)

\* RicciScalar.from_riemann(riemann, parent_metric)
ScalarFromRiemann(h, riemann, parent_metric) ==
    LET cg == RicciFromRiemann(h, riemann, parent_metric)
    IN  IF cg.out # "ok" THEN Raise(cg.out)
        ELSE ScalarFromRicciTensor(h, cg.obj, None)

\* RicciScalar.from_christoffels(chris, parent_metric)
ScalarFromChristoffels(h, chris, parent_metric) ==
    LET rt == RiemannFromChristoffels(h, chris, parent_metric)
    IN  ScalarFromRiemann(h, rt.obj, None)

\* RicciScalar.from_metric(metric)
ScalarFromMetric(h, eng, mid) ==
    LET ch == ChristoffelFromMetric(h, eng, mid)
    IN  ScalarFromChristoffels(h, ch.obj, None)

\* RicciScalar defines no change_config: the attribute lookup fails
ScalarChangeConfig(h, self, newconfig, metric) == Raise("AttributeError")

\* ------------------------------------------------------------- weyl.py
\* WeylTensor.__init__(arr, syms, config, parent_metric)
WeylTensorInit(arr, syms, config, parent_metric) ==
    IF ~IsListOrTuple(syms) THEN Raise("TypeError")
    ELSE IF ~(Len(config) = WeylOrder) THEN Raise("ValueError")
    ELSE Ok(Obj("WeylTensor", arr, config, syms, parent_metric))

\* a decoding that takes l and m from the same digit of t
DecodeRepeated(t, dims) ==
    <<t % dims, (t \div dims) % dims, (t \div (dims ^ 2)) % dims,
      (t \div (dims ^ 2)) % dims>>

\* the index quadruple (i, k, l, m) of loop counter t
Decode(t, dims) ==
    <<t % dims, (t \div dims) % dims, (t \div (dims ^ 2)) % dims,
      (t \div (dims ^ 3)) % dims>>

\* the value assigned to C[i][k][l][m]
WeylEntry(i, k, l, m, riemann_cov, ricci, g, scalar, dims) ==
    LET R(a, b) == At(ricci, <<a, b>>)
        G(a, b) == At(g, <<a, b>>)
    IN  RAdd(At(riemann_cov, <<i, k, l, m>>),
             RAdd(RDiv(RSub(RAdd(RSub(RMul(R(i, m), G(k, l)), RMul(R(i, l), G(k, m))),
                                 RMul(R(k, l), G(i, m))),
                            RMul(R(k, m), G(i, l))),
                       RInt(dims - 2)),
                  RDiv(RMul(scalar,
                            RSub(RMul(G(i, l), G(k, m)), RMul(G(i, m), G(k, l)))),
                       RInt((dims - 1) * (dims - 2)))))

\* the cells assigned by the loop body for t = lo, lo + 1, ..., hi - 1, each
\* with the value it holds afterwards: a later assignment replaces an earlier
RECURSIVE WeylLoop(_, _, _, _, _, _, _)
WeylLoop(lo, hi, riemann_cov, ricci, g, scalar, dims) ==
    IF hi <= lo THEN <<>>
    ELSE IF hi = lo + 1
    THEN LET q == Decode(lo, dims)
         IN  q :> WeylEntry(q[1], q[2], q[3], q[4], riemann_cov, ricci, g, scalar, dims)
    ELSE WeylLoop((lo + hi) \div 2, hi, riemann_cov, ricci, g, scalar, dims)
             @@ WeylLoop(lo, (lo + hi) \div 2, riemann_cov, ricci, g, scalar, dims)

\* the shape handed to np.zeros in the 3-dimensional case
ZeroShape == <<3, 3>>

\* WeylTensor.from_metric(metric), the branch taken when metric.dims > 3;
\* an exception of a call it makes propagates
WeylDecomposition(h, eng, mid) ==
    LET metric == h[mid]
        metric_cov == IF metric.config = UU THEN MetricInv(metric) ELSE metric
        t_riemann == RiemannFromMetric(h, eng, mid)
        t_riemann_cov == RiemannChangeConfig(h, t_riemann.obj, LLLL, None)
        t_ricci == RicciFromRiemann(h, t_riemann.obj, None)
        r_scalar == ScalarFromRicciTensor(h, t_ricci.obj, None)
        dims == metric_cov.dims
    IN  IF t_riemann_cov.out # "ok" THEN Raise(t_riemann_cov.out)
        ELSE IF t_ricci.out # "ok" THEN Raise(t_ricci.out)
        ELSE IF r_scalar.out # "ok" THEN Raise(r_scalar.out)
        ELSE WeylTensorInit(
                 [shape |-> [a \in 1..4 |-> dims],
                  data |-> WeylLoop(0, dims ^ 4, t_riemann_cov.obj.arr,
                                    t_ricci.obj.arr, metric_cov.arr,
                                    ScalarOf(r_scalar.obj.arr), dims)
                               @@ Zeros(4, dims).data],
                 metric.syms, LLLL, mid)

\* a from_metric that rejects dimensions below 2 instead of below 3
WeylFromMetricThreshold(h, eng, mid) ==
    IF h[mid].dims > WeylZeroDim THEN WeylDecomposition(h, eng, mid)
    ELSE IF h[mid].dims >= WeylZeroDim - 1
    THEN WeylTensorInit(Zeros(Len(ZeroShape), ZeroShape[1]), h[mid].syms, LLLL, mid)
    ELSE Raise("ValueError")

\* WeylTensor.from_metric(metric)
WeylFromMetric(h, eng, mid) ==
    IF h[mid].dims > WeylZeroDim THEN WeylDecomposition(h, eng, mid)
    ELSE IF h[mid].dims = WeylZeroDim
    THEN WeylTensorInit(Zeros(Len(ZeroShape), ZeroShape[1]), h[mid].syms, LLLL, mid)
    ELSE Raise("ValueError")

\* WeylTensor.change_config(newconfig, metric)
WeylChangeConfig(h, self, newconfig, metric) ==
    LET m == IF metric = None THEN self.pm ELSE metric
    IN  IF m = None THEN Raise("Exception")
        ELSE IF ~ChangeConfigDefined(self, h[m], newconfig) THEN Raise("Error")
        ELSE WeylTensorInit(ChangeConfigArr(self, h[m], newconfig),
                            self.syms, newconfig, m)

\* ------------------------------------------------------------ the session
(***************************************************************************)
(* A session holds the objects built so far.  Ids 1 and 2 are two metrics  *)
(* of the same dimension, 3 a Riemann tensor, 4 the Christoffel symbols of *)
(* metric 1 and 5 a Ricci tensor; every call appends the object it         *)
(* returns.  An exception ends the session.  curv[mid] selects the Riemann *)
(* array the engine derives from metric mid.                               *)
(***************************************************************************)
VARIABLES heap, last, curv

vars == <<heap, last, curv>>

MetricIds == {1, 2}

\* input data: metrics (all symmetric and invertible) and curvature arrays
MetricArr(v, n) ==
    MkArr(2, n,
          LAMBDA ix :
              IF v = 0 THEN RInt(IF ix[1] # ix[2] THEN 0 ELSE IF ix[1] = 0 THEN -1 ELSE 1)
              ELSE IF v = 1 THEN RInt(IF ix[1] # ix[2] THEN 0 ELSE IF ix[1] = 0 THEN 2 ELSE 1)
              ELSE RInt(IF ix[1] = ix[2] THEN (IF ix[1] = 1 THEN 2 ELSE 1)
                        ELSE IF ix[1] + ix[2] = 1 THEN 1 ELSE 0))

CurvTemplate(k, n) ==
    MkArr(4, n,
          LAMBDA ix : RInt((((k + 1) * ix[1] + 2 * ix[2] + 3 * ix[3] + 5 * ix[4] + k) % 3) - 1))

RicciTemplate(n) == MkArr(2, n, LAMBDA ix : RInt(((3 * ix[1] + ix[2]) % 4) - 1))

WeylTemplate(n) == CurvTemplate(2, n)

ScalarTemplate == MkArr(0, 0, LAMBDA ix : RInt(3))

Dim == heap[1].dims

\* the engine's Riemann array for each metric of the session
Eng == [mid \in MetricIds |-> CurvTemplate(curv[mid], Dim)]

Input(obj) == [obj EXCEPT !.origin = Call("input", None, None, <<>>, obj.syms)]

InitWith(dimset, metrics, riemanns, riccis, curvs) ==
    \E n \in dimset, mv \in metrics, rv \in riemanns, tv \in riccis, k \in curvs :
        LET m1 == Obj("Metric", MetricArr(mv[1], n), mv[2], TupleSyms(n), None)
            m2 == Obj("Metric", MetricArr((mv[1] + 1) % 3, n), LL, TupleSyms(n), None)
            rm == Obj("Riemann", CurvTemplate(2, n), rv[1], TupleSyms(n), rv[2])
            ch == Obj("Christoffel", CurvTemplate(k, n), ULL, TupleSyms(n), 1)
            t0 == RicciTensorInit(RicciTemplate(n), TupleSyms(n), tv[1], tv[2]).obj
        IN  /\ heap = <<Input(m1), Input(m2), Input(rm), Input(ch), Input(t0)>>
            /\ last = [call |-> NoCall, out |-> "ok", res |-> None]
            /\ curv = <<k, 1 - k>>

Ids(kind) == {i \in 1..Len(heap) : heap[i].kind = kind}

\* the objects the calls of the session have returned
Created == {i \in 1..Len(heap) : heap[i].origin.op # "input"}

\* a call that overwrites its receiver with the object it returns
CommitInPlace(h, r, call) ==
    IF r.out # "ok" THEN h
    ELSE IF call.recv = None THEN Append(h, [r.obj EXCEPT !.origin = call])
    ELSE Append([h EXCEPT ![call.recv] = [r.obj EXCEPT !.origin = call]],
                [r.obj EXCEPT !.origin = call])

\* the heap after a call: a returned object is a new object
Commit(h, r, call) ==
    IF r.out = "ok" THEN Append(h, [r.obj EXCEPT !.origin = call]) ELSE h

Step(r, call) ==
    /\ last.out = "ok"
    /\ Cardinality(Created) < MaxNew
    /\ heap' = Commit(heap, r, call)
    /\ last' = [call |-> call, out |-> r.out,
                res |-> IF r.out = "ok" THEN Len(heap) + 1 ELSE None]
    /\ UNCHANGED curv

\* argument menus
SymsChoices == {TupleSyms(Dim), ListSyms(Dim), StrSyms(Dim)}
MetricArgs == {None, 2}
RicciConfigs == {LL, UL, LU, UU, <<"l">>}
WeylConfigs == {LLLL, ULLL, <<"l", "l">>}

RicciTensorNew ==
    \E syms \in SymsChoices, config \in {LL, ULL} :
        Step(RicciTensorInit(RicciTemplate(Dim), syms, config, None),
             Call("RicciTensor", None, None, config, syms))

RicciScalarNew ==
    \E syms \in {TupleSyms(Dim), StrSyms(Dim)} :
        Step(RicciScalarInit(ScalarTemplate, syms, None),
             Call("RicciScalar", None, None, <<>>, syms))

WeylTensorNew ==
    \E syms \in {TupleSyms(Dim), StrSyms(Dim)}, config \in {ULLL, ULL} :
        Step(WeylTensorInit(WeylTemplate(Dim), syms, config, None),
             Call("WeylTensor", None, None, config, syms))

RicciFromRiemannAct ==
    \E id \in Ids("Riemann"), pm \in MetricArgs :
        Step(RicciFromRiemann(heap, heap[id], pm),
             Call("RicciTensor.from_riemann", id, pm, <<>>, heap[id].syms))

RicciFromChristoffelsAct ==
    \E id \in Ids("Christoffel"), pm \in {None} :
        Step(RicciFromChristoffels(heap, heap[id], pm),
             Call("RicciTensor.from_christoffels", id, pm, <<>>, heap[id].syms))

RicciFromMetricAct ==
    \E id \in {1} :
        Step(RicciFromMetric(heap, Eng, id),
             Call("RicciTensor.from_metric", id, None, <<>>, heap[id].syms))

RicciChangeConfigAct ==
    \E id \in Ids("RicciTensor"), newconfig \in RicciConfigs, metric \in MetricArgs :
        Step(RicciChangeConfig(heap, heap[id], newconfig, metric),
             Call("RicciTensor.change_config", id, metric, newconfig, heap[id].syms))

ScalarFromRicciTensorAct ==
    \E id \in Ids("RicciTensor"), pm \in MetricArgs :
        Step(ScalarFromRicciTensor(heap, heap[id], pm),
             Call("RicciScalar.from_riccitensor", id, pm, <<>>, heap[id].syms))

ScalarFromRiemannAct ==
    \E id \in Ids("Riemann"), pm \in {None} :
        Step(ScalarFromRiemann(heap, heap[id], pm),
             Call("RicciScalar.from_riemann", id, pm, <<>>, heap[id].syms))

ScalarFromChristoffelsAct ==
    \E id \in Ids("Christoffel"), pm \in {None} :
        Step(ScalarFromChristoffels(heap, heap[id], pm),
             Call("RicciScalar.from_christoffels", id, pm, <<>>, heap[id].syms))

ScalarFromMetricAct ==
    \E id \in {1} :
        Step(ScalarFromMetric(heap, Eng, id),
             Call("RicciScalar.from_metric", id, None, <<>>, heap[id].syms))

ScalarChangeConfigAct ==
    \E id \in Ids("RicciScalar"), metric \in MetricArgs :
        Step(ScalarChangeConfig(heap, heap[id], UL, metric),
             Call("RicciScalar.change_config", id, metric, UL, heap[id].syms))

WeylFromMetricAct ==
    \E id \in MetricIds :
        Step(WeylFromMetric(heap, Eng, id),
             Call("WeylTensor.from_metric", id, None, <<>>, heap[id].syms))

WeylChangeConfigAct ==
    \E id \in Ids("WeylTensor"), newconfig \in WeylConfigs, metric \in MetricArgs :
        Step(WeylChangeConfig(heap, heap[id], newconfig, metric),
             Call("WeylTensor.change_config", id, metric, newconfig, heap[id].syms))

Init ==
    InitWith({SmallDim}, {<<1, UU>>, <<2, LL>>},
             {<<ULLL, None>>, <<LLLL, 1>>, <<LLLL, None>>}, {<<LL, None>>}, {0})

Next ==
    \/ RicciTensorNew
    \/ RicciScalarNew
    \/ WeylTensorNew
    \/ RicciFromRiemannAct
    \/ RicciFromChristoffelsAct
    \/ RicciFromMetricAct
    \/ RicciChangeConfigAct
    \/ ScalarFromRicciTensorAct
    \/ ScalarFromRiemannAct
    \/ ScalarFromChristoffelsAct
    \/ ScalarFromMetricAct
    \/ ScalarChangeConfigAct
    \/ WeylFromMetricAct
    \/ WeylChangeConfigAct

Spec == Init /\ [][Next]_vars

\* the Weyl specification: metrics of every dimension 0 .. MaxDim
InitWeyl ==
    InitWith(0..MaxDim, {0, 1, 2} \X {LL, UU}, {<<ULLL, None>>}, {<<LL, None>>}, {0, 1})

NextWeyl == WeylFromMetricAct

SpecWeyl == InitWeyl /\ [][NextWeyl]_vars

\* ---------------------------------------------------------------------
\* Properties
\* ---------------------------------------------------------------------

\* the objects a call of the given operation has returned
Made(op) == {i \in 1..Len(heap) : heap[i].origin.op = op}

\* the metric a from_metric call received
MetricOf(i) == heap[heap[i].origin.recv]

\* C1: for a 3-dimensional metric WeylTensor.from_metric returns a rank-4
\* tensor of shape 3x3x3x3 whose components are all zero, with configuration
\* "llll" and the input metric as parent metric
C1_ZeroTensorOfRankFour ==
    \A i \in Made("WeylTensor.from_metric") :
        MetricOf(i).dims = 3 =>
            /\ heap[i].kind = "WeylTensor"
            /\ heap[i].arr.shape = <<3, 3, 3, 3>>
            /\ \A ix \in DOMAIN heap[i].arr.data : heap[i].arr.data[ix] = RZero
            /\ heap[i].config = LLLL
            /\ heap[i].pm = heap[i].origin.recv

\* C2: WeylTensor.from_metric raises ValueError exactly when the metric has
\* fewer than 3 dimensions and then returns no WeylTensor; for 3 or more
\* dimensions it returns a WeylTensor of configuration "llll"
C2_ValueErrorBelowThree ==
    last.call.op = "WeylTensor.from_metric" =>
        LET dims == heap[last.call.recv].dims
        IN  /\ (last.out = "ValueError") <=> (dims < 3)
            /\ dims < 3 => /\ last.res = None
                           /\ Made("WeylTensor.from_metric") = {}
            /\ dims >= 3 => /\ last.out = "ok"
                            /\ heap[last.res].kind = "WeylTensor"
                            /\ heap[last.res].config = LLLL

C2_Witness ==
    /\ last.call.op = "WeylTensor.from_metric"
    /\ heap[last.call.recv].dims = 2
    /\ last.out = "ValueError"

\* the Riemann array with its first index lowered by the covariant metric g
LoweredRiemann(Rul, g, n) ==
    Stored([ix \in Idx(4, n) |->
               RSum([s \in 1..n |->
                        RMul(g.data[<<ix[1], s - 1>>],
                             Rul.data[<<s - 1, ix[2], ix[3], ix[4]>>])])])

\* the contraction of the mixed Riemann array over its first and third index
RicciOf(Rul, n) ==
    Stored([p \in Idx(2, n) |->
               RSum([s \in 1..n |-> Rul.data[<<s - 1, p[1], s - 1, p[2]>>]])])

\* the trace of the Ricci array Ric with the inverse metric ginv
ScalarCurvature(Ric, ginv, n) ==
    RSum([s \in 1..n |->
             RSum([t \in 1..n |->
                      RMul(ginv.data[<<s - 1, t - 1>>], Ric[<<s - 1, t - 1>>])])])

\* the right-hand side of the Weyl decomposition at (i, k, l, m)
WeylFormula(i, k, l, m, R, Ric, Rs, g, n) ==
    RAdd(RAdd(R[<<i, k, l, m>>],
              RDiv(RSub(RAdd(RSub(RMul(Ric[<<i, m>>], g[<<k, l>>]),
                                  RMul(Ric[<<i, l>>], g[<<k, m>>])),
                             RMul(Ric[<<k, l>>], g[<<i, m>>])),
                        RMul(Ric[<<k, m>>], g[<<i, l>>])),
                   RInt(n - 2))),
         RDiv(RMul(Rs, RSub(RMul(g[<<i, l>>], g[<<k, m>>]),
                            RMul(g[<<i, m>>], g[<<k, l>>]))),
              RInt((n - 1) * (n - 2))))

\* the components of a tensor that differ from the decomposition formula,
\* the Ricci tensor and scalar being those of the original Riemann array Rul
\* and g the covariant metric with inverse ginv
Deviating(arr, Rul, g, ginv, n) ==
    LET R == LoweredRiemann(Rul, g, n)
        Ric == RicciOf(Rul, n)
        Rs == ScalarCurvature(Ric, ginv, n)
    IN  {ix \in Idx(4, n) :
            arr.data[ix] # WeylFormula(ix[1], ix[2], ix[3], ix[4], R, Ric, Rs, g.data, n)}

\* C3: for a metric of 4 or more dimensions every component (i, k, l, m) of
\* the tensor from_metric returns is assigned exactly once by the loop and
\* equals the Weyl decomposition formula over the covariant Riemann tensor,
\* the Ricci tensor and scalar of the original Riemann tensor and the
\* covariant metric (the inverse of the input when the input is "uu"); the
\* result has configuration "llll" and the input metric as parent
C3_WeylDecomposition ==
    \A i \in Made("WeylTensor.from_metric") :
        MetricOf(i).dims >= 4 =>
            LET metric == MetricOf(i)
                n == metric.dims
                g == IF metric.config = UU THEN MatInv(metric.arr) ELSE metric.arr
                ginv == IF metric.config = UU THEN metric.arr ELSE MatInv(metric.arr)
            IN  /\ heap[i].kind = "WeylTensor"
                /\ heap[i].config = LLLL
                /\ heap[i].pm = heap[i].origin.recv
                /\ heap[i].arr.shape = <<n, n, n, n>>
                /\ DOMAIN heap[i].arr.data = Idx(4, n)
                /\ \A t \in 0..(n ^ 4 - 1) : Decode(t, n) \in Idx(4, n)
                /\ Cardinality({Decode(t, n) : t \in 0..(n ^ 4 - 1)}) = n ^ 4
                /\ Deviating(heap[i].arr, Eng[heap[i].origin.recv], g, ginv, n) = {}

C3_Witness ==
    \E i \in Made("WeylTensor.from_metric") :
        /\ MetricOf(i).dims = 4
        /\ MetricOf(i).config = UU
        /\ \E ix \in Idx(4, 4) : At(heap[i].arr, ix) # RZero

\* C4: for a valid metric the expression of RicciScalar.from_metric(metric)
\* equals the trace over axes 0 and 1 of RicciTensor.from_metric(metric)
\* converted to configuration "ul"
C4_ScalarIsTraceOfMixedRicci ==
    /\ last.call.op = "RicciScalar.from_metric" => last.out = "ok"
    /\ \A i \in Made("RicciScalar.from_metric") :
           LET t_ricci == RicciFromMetric(heap, Eng, heap[i].origin.recv)
               mixed == RicciChangeConfig(heap, t_ricci.obj, UL, None)
           IN  /\ t_ricci.out = "ok"
               /\ mixed.out = "ok"
               /\ heap[i].kind = "RicciScalar"
               /\ heap[i].arr.data[<<>>]
                      = RSum([s \in 1..Dim |-> mixed.obj.arr.data[<<s - 1, s - 1>>]])

C4_Witness ==
    \E i \in Made("RicciScalar.from_metric") :
        /\ heap[i].arr.data[<<>>] # RZero
        /\ heap[i].arr.data[<<>>]
               # RSum([s \in 1..Dim |->
                          RicciFromMetric(heap, Eng, 1).obj.arr.data[<<s - 1, s - 1>>]])

\* the last call was change_config with no metric on an object without parent
Parentless(op) ==
    /\ last.call.op = op
    /\ last.call.metric = None
    /\ heap[last.call.recv].pm = None

\* C5: change_config of RicciTensor and of WeylTensor, called with no metric
\* on an object constructed without a parent metric, fails with the "Parent
\* Metric not found" Exception and returns no object whatever the target
\* configuration; RicciScalar has no change_config, so that call fails with
\* an AttributeError
C5_NoMetricFails ==
    /\ \A op \in {"RicciTensor.change_config", "WeylTensor.change_config"} :
           Parentless(op) =>
               /\ last.out = "Exception"
               /\ last.res = None
               /\ \A i \in 1..Len(heap) : heap[i].origin # last.call
    /\ last.call.op = "RicciScalar.change_config" =>
           /\ last.out = "AttributeError"
           /\ last.res = None

C5_Witness ==
    /\ Parentless("RicciTensor.change_config")
    /\ last.call.config = UL
    /\ last.out = "Exception"

\* C5 as stated: on each of the three types the failure is the "Parent
\* Metric not found" Exception
C5_ExceptionOnAllThree ==
    \A op \in {"RicciTensor.change_config", "RicciScalar.change_config",
               "WeylTensor.change_config"} :
        Parentless(op) => (last.out = "Exception" /\ last.res = None)

\* C6: the three constructors fail with TypeError when syms is neither list
\* nor tuple; with valid syms RicciTensor and WeylTensor fail with ValueError
\* when the configuration length is not 2 and 4; so every RicciTensor has a
\* configuration of length 2 and every WeylTensor one of length 4
C6_ConstructorChecks ==
    /\ (/\ last.call.op \in {"RicciTensor", "RicciScalar", "WeylTensor"}
        /\ last.call.syms.kind \notin {"list", "tuple"}) => last.out = "TypeError"
    /\ (/\ last.call.op = "RicciTensor"
        /\ last.call.syms.kind \in {"list", "tuple"}
        /\ Len(last.call.config) # 2) => last.out = "ValueError"
    /\ (/\ last.call.op = "WeylTensor"
        /\ last.call.syms.kind \in {"list", "tuple"}
        /\ Len(last.call.config) # 4) => last.out = "ValueError"
    /\ \A i \in 1..Len(heap) :
           /\ heap[i].kind = "RicciTensor" => Len(heap[i].config) = 2
           /\ heap[i].kind = "WeylTensor" => Len(heap[i].config) = 4

C6_Witness ==
    /\ last.call.op = "RicciTensor"
    /\ last.call.syms.kind = "list"
    /\ Len(last.call.config) = 3
    /\ last.out = "ValueError"

ContractFirstThird(arr) ==
    [p \in Idx(2, Side(arr)) |->
        RSum([s \in 1..Side(arr) |-> arr.data[<<s - 1, p[1], s - 1, p[2]>>]])]

\* C8: RicciTensor.from_riemann converts the Riemann tensor to "ulll" only
\* when it is not "ulll" already, with parent_metric or else the Riemann
\* tensor's own parent; it contracts axes 0 and 2 and returns a RicciTensor
\* of configuration "ll" with the Riemann tensor's syms and parent metric
\* parent_metric if given, else the Riemann tensor's; a "ulll" Riemann tensor
\* with no metric anywhere yields a result with parent None
C8_FromRiemann ==
    /\ (/\ last.call.op = "RicciTensor.from_riemann"
        /\ heap[last.call.recv].config = ULLL) => last.out = "ok"
    /\ \A i \in Made("RicciTensor.from_riemann") :
           LET call == heap[i].origin
               riemann == heap[call.recv]
               used == IF call.metric # None THEN call.metric ELSE riemann.pm
               mixed == IF riemann.config = ULLL THEN riemann.arr
                        ELSE ChangeConfigArr(riemann, heap[used], ULLL)
           IN  /\ heap[i].kind = "RicciTensor"
               /\ heap[i].config = LL
               /\ heap[i].syms = riemann.syms
               /\ heap[i].pm = used
               /\ riemann.config # ULLL => used # None
               /\ heap[i].arr.shape = <<Dim, Dim>>
               /\ heap[i].arr.data = ContractFirstThird(mixed)

C8_Witness ==
    \E i \in Made("RicciTensor.from_riemann") :
        /\ heap[heap[i].origin.recv].config = ULLL
        /\ heap[heap[i].origin.recv].pm = None
        /\ heap[i].origin.metric = None
        /\ heap[i].pm = None

\* C9: no call changes an object that exists: the array, configuration, syms
\* and parent metric of every receiver, input and metric stay as they were,
\* and a successful change_config returns an object that was not there
\* before and is not the receiver
C9_Immutable ==
    [][/\ Len(heap') >= Len(heap)
       /\ \A i \in 1..Len(heap) : heap'[i] = heap[i]
       /\ (/\ last'.call.op \in {"RicciTensor.change_config", "WeylTensor.change_config"}
           /\ last'.out = "ok")
              => /\ last'.res \notin 1..Len(heap)
                 /\ last'.res \in 1..Len(heap')
                 /\ last'.res # last'.call.recv]_vars

C9_Witness ==
    \E i \in Made("WeylTensor.change_config") :
        /\ last.res = i
        /\ heap[i].origin.recv # i
        /\ heap[i].origin.metric = 2
        /\ heap[i].config # heap[heap[i].origin.recv].config
        /\ heap[2].origin.op = "input"

\* C10: converting a RicciTensor T of configuration c to a configuration c2
\* with a metric M and the result back to c with the same M gives a tensor
\* of configuration c with parent M and the array of T
C10_RoundTrip ==
    \A i \in Made("RicciTensor.change_config") :
        LET back == heap[i].origin
            there == heap[back.recv].origin
        IN  (/\ there.op = "RicciTensor.change_config"
             /\ there.metric # None
             /\ back.metric = there.metric
             /\ back.config = heap[there.recv].config)
                => /\ heap[i].config = heap[there.recv].config
                   /\ heap[i].pm = there.metric
                   /\ heap[i].arr = heap[there.recv].arr

C10_Witness ==
    \E i \in Made("RicciTensor.change_config") :
        LET back == heap[i].origin
            there == heap[back.recv].origin
        IN  /\ there.op = "RicciTensor.change_config"
            /\ there.metric = 2
            /\ back.metric = 2
            /\ back.config = heap[there.recv].config
            /\ heap[back.recv].config # back.config
            /\ heap[back.recv].arr # heap[i].arr

====
